---- MODULE Spec2Model ----
(***************************************************************************)
(* The burglary dashboard of src/ivi_sahan_final.py as a state machine.    *)
(*                                                                         *)
(* A district name "Kreis 10" is written as the sequence of the digits     *)
(* that follow the common prefix "Kreis ", here <<1, 0>>: the order of     *)
(* Python strings on such names is the lexicographic order of these        *)
(* sequences, and extract_number reads the number back from the digits.    *)
(* A float is written as an exact fraction [num, den]; den = 0 stands for  *)
(* the result of a float division by zero (inf when num > 0, NaN when      *)
(* num = 0), which numpy returns without raising.  A missing value (NaN    *)
(* in a column, None in Python) is the empty sequence << >>, a present     *)
(* value v is <<v>>.                                                       *)
(***************************************************************************)
EXTENDS Integers, Sequences, FiniteSets, TLC

VARIABLES
    pc,                          \* "startup" before the module body has run, "serving" after
    csv_data,                    \* the incidents table read at line 21
    population_data,             \* the population table read at line 22
    merged_data,                 \* the dataset (lines 35-47)
    total_burglaries_all_years,  \* line 50
    districts_sorted,            \* line 54
    year_slider,                 \* value of the RangeSlider 'year-slider'
    selected_metric,             \* dcc.Store 'selected-metric'
    selected_districts,          \* dcc.Store 'selected-districts'
    rate_class,                  \* className of 'button-burglary-rate'
    total_class,                 \* className of 'button-total-burglaries'
    district_classes,            \* className of each district button
    pending,                     \* callbacks the framework still has to run
    dashboard,                   \* outputs and locals of the last update_dashboard call
    last_metric_click,           \* history: the metric button clicked last, if any
    last_district_click,         \* history: the district or reset button clicked last,
                                 \* << >> if none
    odd_clicks                   \* history: districts whose button was clicked an odd
                                 \* number of times since the last reset click

vars == <<pc, csv_data, population_data, merged_data, total_burglaries_all_years,
          districts_sorted, year_slider, selected_metric, selected_districts,
          rate_class, total_class, district_classes, pending, dashboard,
          last_metric_click, last_district_click, odd_clicks>>

----------------------------------------------------------------------------
(* Bounds of the enumerated inputs *)

MaxRows == 3        \* rows of the incidents table
MaxCount == 2       \* largest Straftaten_total of a row
MaxDistricts == 13  \* districts of the wide tables
MaxHot == 2         \* districts of a wide table with the high count

Years == {2009, 2010}
Pops == {1, 2}

\* "Kreis k" for a number k below 100
Name(k) == IF k < 10 THEN <<k>> ELSE <<k \div 10, k % 10>>

DistrictNames == {Name(2), Name(10)}
WideNames == {Name(k) : k \in 1..MaxDistricts}

NaN == << >>

----------------------------------------------------------------------------
(* Generic helpers *)

Min(a, b) == IF a <= b THEN a ELSE b

Range(s) == {s[i] : i \in DOMAIN s}

RECURSIVE SumSeq(_)
SumSeq(s) == IF s = << >> THEN 0 ELSE Head(s) + SumSeq(Tail(s))

\* Fractions with non-negative numerator and denominator
Frac(n, d) == [num |-> n, den |-> d]
FracLess(a, b) == a.num * b.den < b.num * a.den
FracEq(a, b) == a.num * b.den = b.num * a.den
FracAdd(a, b) == Frac(a.num * b.den + b.num * a.den, a.den * b.den)
FracDivInt(a, k) == Frac(a.num, a.den * k)

RECURSIVE FracSum(_)
FracSum(s) == IF s = << >> THEN Frac(0, 1) ELSE FracAdd(Head(s), FracSum(Tail(s)))

\* Python string order on district names
RECURSIVE NameLess(_, _)
NameLess(a, b) ==
    IF a = << >> THEN b # << >>
    ELSE IF b = << >> THEN FALSE
    ELSE IF Head(a) # Head(b) THEN Head(a) < Head(b)
    ELSE NameLess(Tail(a), Tail(b))

----------------------------------------------------------------------------
(* Startup: lines 11-54 and the initial property values of the layout *)

\* extract_number (lines 12-18) on a name that holds digits: the number the
\* first run of digits spells.  Every enumerated name holds digits, so the
\* float('inf') of a name without any does not arise.
RECURSIVE extract_number(_)
extract_number(district_name) ==
    IF district_name = << >> THEN 0
    ELSE 10 * extract_number(SubSeq(district_name, 1, Len(district_name) - 1))
         + district_name[Len(district_name)]

\* pd.merge(..., how='left') on (Stadtkreis_Name, Year) = (KreisLang, Year),
\* lines 35-41: the rows of the result, in the order of the left table, one
\* per matching population row, or one with a missing AnzBestWir when no
\* population row matches.
RECURSIVE MergeRows(_, _)
MergeRows(csv, population) ==
    IF csv = << >> THEN << >>
    ELSE LET r == Head(csv)
             matches == SelectSeq(population,
                            LAMBDA p : p.KreisLang = r.Stadtkreis_Name /\ p.Year = r.Year)
             joined == IF matches = << >>
                       THEN << [Stadtkreis_Name |-> r.Stadtkreis_Name, Year |-> r.Year,
                                Straftaten_total |-> r.Straftaten_total,
                                AnzBestWir |-> NaN] >>
                       ELSE [i \in 1..Len(matches) |->
                               [Stadtkreis_Name |-> r.Stadtkreis_Name, Year |-> r.Year,
                                Straftaten_total |-> r.Straftaten_total,
                                AnzBestWir |-> matches[i].AnzBestWir]]
         IN joined \o MergeRows(Tail(csv), population)

\* The merged frame with its RangeIndex 0..n-1 (the row labels that later
\* selections keep)
Merge(csv, population) ==
    LET rows == MergeRows(csv, population)
    IN [i \in 1..Len(rows) |->
          [idx |-> i - 1,
           Stadtkreis_Name |-> rows[i].Stadtkreis_Name,
           Year |-> rows[i].Year,
           Straftaten_total |-> rows[i].Straftaten_total,
           AnzBestWir |-> rows[i].AnzBestWir]]

\* dropna(subset=['AnzBestWir']), lines 44 and 542 (a variant that drops nothing
\* precedes it)
dropna_none(rows) == rows
dropna(rows) == SelectSeq(rows, LAMBDA r : r.AnzBestWir # NaN)

\* Line 47: (Straftaten_total / AnzBestWir) * 1000 for every row (NaN where
\* the population is missing)
WithRate(rows) ==
    [i \in 1..Len(rows) |->
       [idx |-> rows[i].idx,
        Stadtkreis_Name |-> rows[i].Stadtkreis_Name,
        Year |-> rows[i].Year,
        Straftaten_total |-> rows[i].Straftaten_total,
        AnzBestWir |-> rows[i].AnzBestWir,
        Burglary_rate_per_1000 |->
            IF rows[i].AnzBestWir = NaN THEN Frac(0, 0)
            ELSE Frac(rows[i].Straftaten_total * 1000, rows[i].AnzBestWir[1])]]

\* Lines 34-47
MergedData(csv, population) == WithRate(dropna(Merge(csv, population)))

\* Series.sum() of the Straftaten_total column (lines 50 and 545)
SumTotal(rows) == SumSeq([i \in 1..Len(rows) |-> rows[i].Straftaten_total])

\* Series.unique(): the distinct values in order of first appearance
RECURSIVE UniqueFrom(_, _)
UniqueFrom(seen, s) ==
    IF s = << >> THEN seen
    ELSE UniqueFrom(IF Head(s) \in Range(seen) THEN seen ELSE Append(seen, Head(s)), Tail(s))

Unique(s) == UniqueFrom(<< >>, s)

\* sorted(seq, key=...): a stable insertion sort, by extract_number and by
\* the string order of the names
RECURSIVE InsertByNumber(_, _)
InsertByNumber(sorted, x) ==
    IF sorted = << >> THEN <<x>>
    ELSE IF extract_number(x) < extract_number(Head(sorted))
         THEN <<x>> \o sorted
         ELSE <<Head(sorted)>> \o InsertByNumber(Tail(sorted), x)

RECURSIVE SortByNumber(_)
SortByNumber(s) ==
    IF s = << >> THEN << >>
    ELSE InsertByNumber(SortByNumber(SubSeq(s, 1, Len(s) - 1)), s[Len(s)])

RECURSIVE InsertByName(_, _)
InsertByName(sorted, x) ==
    IF sorted = << >> THEN <<x>>
    ELSE IF NameLess(x, Head(sorted))
         THEN <<x>> \o sorted
         ELSE <<Head(sorted)>> \o InsertByName(Tail(sorted), x)

RECURSIVE SortByName(_)
SortByName(s) ==
    IF s = << >> THEN << >>
    ELSE InsertByName(SortByName(SubSeq(s, 1, Len(s) - 1)), s[Len(s)])

ColumnNames(rows) == [i \in 1..Len(rows) |-> rows[i].Stadtkreis_Name]
ColumnYears(rows) == {rows[i].Year : i \in 1..Len(rows)}

\* Line 54
DistrictsSorted(rows) == SortByNumber(Unique(ColumnNames(rows)))

\* Lines 285-289: value=[Year.min(), Year.max()]; << >> stands for the
\* [nan, nan] of an empty dataset
SliderValue(rows) ==
    IF rows = << >> THEN << >>
    ELSE LET ys == ColumnYears(rows)
         IN << CHOOSE y \in ys : \A z \in ys : y <= z,
               CHOOSE y \in ys : \A z \in ys : y >= z >>

METRIC_BUTTON == "metric-button"
METRIC_BUTTON_ACTIVE == "metric-button active"
DISTRICT_BUTTON == "metric-button district-circle"
DISTRICT_BUTTON_ACTIVE == "metric-button district-circle active"
RATE == "Burglary_rate_per_1000"
TOTAL == "Straftaten_total"

CALLBACKS == {"update_button_states", "update_selected_districts",
              "update_district_button_classes", "update_dashboard"}

\* The module body up to and including app.layout (lines 20-406).  Serving
\* the page then makes the framework call every callback once.
Startup ==
    /\ pc = "startup"
    /\ pc' = "serving"
    /\ merged_data' = MergedData(csv_data, population_data)
    /\ total_burglaries_all_years' = SumTotal(merged_data')
    /\ districts_sorted' = DistrictsSorted(merged_data')
    /\ year_slider' = SliderValue(merged_data')
    /\ selected_metric' = RATE
    /\ selected_districts' = << >>
    /\ rate_class' = METRIC_BUTTON
    /\ total_class' = METRIC_BUTTON
    /\ district_classes' = [d \in Range(districts_sorted') |-> DISTRICT_BUTTON]
    /\ pending' = CALLBACKS
    /\ UNCHANGED <<csv_data, population_data, dashboard,
                   last_metric_click, last_district_click, odd_clicks>>

----------------------------------------------------------------------------
(* update_dashboard: lines 521-705 *)

TopN == 12

\* The string "N/A" of lines 553-554, which holds no digit
N_A == << >>

\* Lines 526-529 and 536-539: the rows whose Year lies in the selected range
\* (the variant before it leaves out the upper end of the range)
FilterYears_exclusive(rows, selected_years) ==
    SelectSeq(rows, LAMBDA r : r.Year >= selected_years[1] /\ r.Year < selected_years[2])
FilterYears(rows, selected_years) ==
    SelectSeq(rows, LAMBDA r : r.Year >= selected_years[1] /\ r.Year <= selected_years[2])

\* Line 533: rows[rows['Stadtkreis_Name'].isin(names)]
isin(rows, names) == SelectSeq(rows, LAMBDA r : r.Stadtkreis_Name \in Range(names))

\* Lines 531-539: the district filter, which an empty list switches off (the
\* variant before it applies the list even when it is empty)
DistrictFilter_always(by_year, selected_years, districts) ==
    isin(by_year, districts)
DistrictFilter(by_year, selected_years, districts) ==
    IF districts # << >>
    THEN isin(by_year, districts)
    ELSE FilterYears(merged_data, selected_years)

\* Lines 525-542: filtered_data
FilteredData(selected_years, districts) ==
    dropna(DistrictFilter(FilterYears(merged_data, selected_years),
                          selected_years, districts))

\* A column of the frame as floats
MetricColumn(rows, metric) ==
    [i \in 1..Len(rows) |->
        IF metric = TOTAL THEN Frac(rows[i].Straftaten_total, 1)
        ELSE rows[i].Burglary_rate_per_1000]

\* Series.mean()
Mean(s) == FracDivInt(FracSum(s), Len(s))

\* groupby('Stadtkreis_Name'): the group keys, sorted as strings
GroupKeys(rows) == SortByName(Unique(ColumnNames(rows)))

GroupRows(rows, key) == SelectSeq(rows, LAMBDA r : r.Stadtkreis_Name = key)

\* groupby('Stadtkreis_Name')[metric].mean(), lines 550-551: one entry per
\* group key, in key order
RECURSIVE MeansOf(_, _, _)
MeansOf(keys, rows, metric) ==
    IF keys = << >> THEN << >>
    ELSE << [key |-> Head(keys),
             value |-> Mean(MetricColumn(GroupRows(rows, Head(keys)), metric))] >>
         \o MeansOf(Tail(keys), rows, metric)

GroupMeans(rows, metric) == MeansOf(GroupKeys(rows), rows, metric)

\* Series.idxmin() and idxmax(): the label of the first smallest (largest)
\* value, found by a scan that keeps the best position so far (the variant
\* before ArgMin moves on to a later equal value)
RECURSIVE ArgMin_last(_, _, _)
ArgMin_last(s, best, i) ==
    IF i > Len(s) THEN best
    ELSE IF ~FracLess(s[best].value, s[i].value) THEN ArgMin_last(s, i, i + 1)
    ELSE ArgMin_last(s, best, i + 1)

RECURSIVE ArgMin(_, _, _)
ArgMin(s, best, i) ==
    IF i > Len(s) THEN best
    ELSE IF FracLess(s[i].value, s[best].value) THEN ArgMin(s, i, i + 1)
    ELSE ArgMin(s, best, i + 1)

RECURSIVE ArgMax(_, _, _)
ArgMax(s, best, i) ==
    IF i > Len(s) THEN best
    ELSE IF FracLess(s[best].value, s[i].value) THEN ArgMax(s, i, i + 1)
    ELSE ArgMax(s, best, i + 1)

idxmin(s) == s[ArgMin(s, 1, 2)].key
idxmax(s) == s[ArgMax(s, 1, 2)].key

\* Lines 556-566: groupby('Stadtkreis_Name').agg(sum of Straftaten_total, mean
\* of Burglary_rate_per_1000).reset_index(); both branches build the same
\* columns (the variant before it averages the counts instead of summing them)
RECURSIVE AggregateOf_mean(_, _)
AggregateOf_mean(keys, rows) ==
    IF keys = << >> THEN << >>
    ELSE LET group == GroupRows(rows, Head(keys))
         IN << [Stadtkreis_Name |-> Head(keys),
                Straftaten_total |-> SumTotal(group) \div Len(group),
                Burglary_rate_per_1000 |-> Mean(MetricColumn(group, RATE))] >>
            \o AggregateOf_mean(Tail(keys), rows)

RECURSIVE AggregateOf(_, _)
AggregateOf(keys, rows) ==
    IF keys = << >> THEN << >>
    ELSE LET group == GroupRows(rows, Head(keys))
         IN << [Stadtkreis_Name |-> Head(keys),
                Straftaten_total |-> SumTotal(group),
                Burglary_rate_per_1000 |-> Mean(MetricColumn(group, RATE))] >>
            \o AggregateOf(Tail(keys), rows)

Aggregate(rows) == AggregateOf(GroupKeys(rows), rows)

\* sort_values(by=metric, ascending=False), line 611.  The default sort kind is
\* not stable, so rows with equal values come out in an order the build
\* decides: ties is "kept" when they stay in group order and "reversed" when
\* they come out in the opposite order.
TieOrders == {"kept", "reversed"}

RECURSIVE InsertDescending(_, _, _, _)
InsertDescending(sorted, x, metric, ties) ==
    IF sorted = << >> THEN <<x>>
    ELSE LET h == Head(sorted)
             hv == MetricColumn(<<h>>, metric)[1]
             xv == MetricColumn(<<x>>, metric)[1]
         IN IF FracLess(hv, xv) \/ (ties = "reversed" /\ FracEq(hv, xv))
            THEN <<x>> \o sorted
            ELSE <<h>> \o InsertDescending(Tail(sorted), x, metric, ties)

RECURSIVE SortDescending(_, _, _)
SortDescending(rows, metric, ties) ==
    IF rows = << >> THEN << >>
    ELSE InsertDescending(SortDescending(SubSeq(rows, 1, Len(rows) - 1), metric, ties),
                          rows[Len(rows)], metric, ties)

\* head(n) (the variant before it keeps one row more)
head_one_more(rows, n) == SubSeq(rows, 1, Min(n + 1, Len(rows)))
head(rows, n) == SubSeq(rows, 1, Min(n, Len(rows)))

\* Series.max() of a non-empty column
RECURSIVE FracMaxFrom(_, _)
FracMaxFrom(m, s) ==
    IF s = << >> THEN m
    ELSE FracMaxFrom(IF FracLess(m, Head(s)) THEN Head(s) ELSE m, Tail(s))

FracMax(s) == FracMaxFrom(Head(s), Tail(s))

\* round(0) of a float: to the nearest integer, halves to the even one
Round0(x) ==
    LET q == x.num \div x.den
        r == x.num % x.den
    IN IF 2 * r < x.den THEN q
       ELSE IF 2 * r > x.den THEN q + 1
       ELSE IF q % 2 = 0 THEN q ELSE q + 1

\* Lines 610-618: top12_data with its color and display_value columns
Top12(agg, metric, ties) ==
    LET top == head(SortDescending(agg, metric, ties), TopN)
        values == MetricColumn(top, metric)
    IN [i \in 1..Len(top) |->
          [Stadtkreis_Name |-> top[i].Stadtkreis_Name,
           Straftaten_total |-> top[i].Straftaten_total,
           Burglary_rate_per_1000 |-> top[i].Burglary_rate_per_1000,
           color |-> LET m == FracMax(values)
                     IN Frac(values[i].num * m.den, values[i].den * m.num),
           display_value |-> IF metric = RATE THEN Round0(values[i])
                             ELSE top[i].Straftaten_total]]

\* Lines 620-624: the average of the metric over the aggregated districts, or
\* None (the variant before it averages the bars of the chart only)
AvgValue_top12(agg, metric) ==
    IF agg # << >> /\ Len(agg) > 1
    THEN << Mean(MetricColumn(head(SortDescending(agg, metric, "kept"), TopN), metric)) >>
    ELSE NaN
AvgValue(agg, metric) ==
    IF agg # << >> /\ Len(agg) > 1 THEN << Mean(MetricColumn(agg, metric)) >> ELSE NaN

\* Line 546: (total_burglaries / total_burglaries_all_years) * 100, a float
\* division of numpy integers: 0 / 0 is NaN
Percentage(total_burglaries) == Frac(total_burglaries * 100, total_burglaries_all_years)

\* Line 686: f"{x:.2f}", as the number of hundredths printed, or "nan"
Format2f(x) ==
    IF x.den = 0 THEN [nan |-> TRUE, hundredths |-> 0]
    ELSE [nan |-> FALSE, hundredths |-> Round0(Frac(x.num * 100, x.den))]

\* Lines 548-554
Safest(filtered_data, metric) ==
    IF filtered_data # << >> THEN idxmin(GroupMeans(filtered_data, metric)) ELSE N_A
Dangerous(filtered_data, metric) ==
    IF filtered_data # << >> THEN idxmax(GroupMeans(filtered_data, metric)) ELSE N_A

\* What one call of update_dashboard computes: its arguments, its locals and
\* its outputs, the figures being kept as the data they are drawn from
Dashboard(selected_years, metric, districts, ties) ==
    LET filtered_data == FilteredData(selected_years, districts)
        total_burglaries == SumTotal(filtered_data)
        percentage_of_total_burglaries == Percentage(total_burglaries)
        filtered_data_agg == Aggregate(filtered_data)
    IN [rendered |-> TRUE,
        selected_years |-> selected_years,
        selected_metric |-> metric,
        selected_districts |-> districts,
        filtered_data |-> filtered_data,
        total_burglaries |-> total_burglaries,
        percentage_of_total_burglaries |-> percentage_of_total_burglaries,
        safest_stadtkreis |-> Safest(filtered_data, metric),
        dangerous_stadtkreis |-> Dangerous(filtered_data, metric),
        filtered_data_agg |-> filtered_data_agg,
        top12_data |-> Top12(filtered_data_agg, metric, ties),
        avg_value |-> AvgValue(filtered_data_agg, metric),
        total_burglaries_text |-> total_burglaries,
        percentage_text |-> Format2f(percentage_of_total_burglaries),
        dynamic_title |-> IF selected_years[1] = selected_years[2]
                          THEN <<selected_years[1]>>
                          ELSE <<selected_years[1], selected_years[2]>>]

\* Every list without repetition of the names in s
RECURSIVE Lists(_)
Lists(S) ==
    IF S = {} THEN {<< >>}
    ELSE {<< >>} \cup UNION {{<<x>> \o t : t \in Lists(S \ {x})} : x \in S}

\* The first call of update_dashboard after startup (a call reads nothing
\* that an earlier call wrote), with any year range a <= b, either metric and
\* any list of district buttons
CallYears == Years

DashCall ==
    /\ pc = "serving"
    /\ ~dashboard.rendered
    /\ \E a \in CallYears, b \in CallYears, metric \in {RATE, TOTAL},
          districts \in Lists(Range(districts_sorted)), ties \in TieOrders :
          /\ a <= b
          /\ dashboard' = Dashboard(<<a, b>>, metric, districts, ties)
    /\ UNCHANGED <<pc, csv_data, population_data, merged_data,
                   total_burglaries_all_years, districts_sorted, year_slider,
                   selected_metric, selected_districts, rate_class, total_class,
                   district_classes, pending,
                   last_metric_click, last_district_click, odd_clicks>>

\* The same call on a table of many districts, with no district selected,
\* all of them, all but the first, or the first alone
RankCall ==
    /\ pc = "serving"
    /\ ~dashboard.rendered
    /\ \E a \in CallYears, b \in CallYears, metric \in {RATE, TOTAL},
          districts \in {<< >>, districts_sorted, Tail(districts_sorted),
                         <<Head(districts_sorted)>>},
          ties \in TieOrders :
          /\ a <= b
          /\ dashboard' = Dashboard(<<a, b>>, metric, districts, ties)
    /\ UNCHANGED <<pc, csv_data, population_data, merged_data,
                   total_burglaries_all_years, districts_sorted, year_slider,
                   selected_metric, selected_districts, rate_class, total_class,
                   district_classes, pending,
                   last_metric_click, last_district_click, odd_clicks>>

----------------------------------------------------------------------------
(* The callbacks as the framework runs them.  A callback is pending when one
   of its inputs was written and it has not run since; the framework runs a
   pending callback only when no pending callback writes one of its inputs.
   A click or a drag happens when no callback is pending: section 5 of the
   specification has every recomputation finish before the next input. *)

NO_TRIGGER == ""
BUTTON_RATE == "button-burglary-rate"
BUTTON_TOTAL == "button-total-burglaries"

\* The identifiers that can trigger a callback now: none on its first call
\* after startup, else one of the buttons that are its inputs
Triggers(callback, buttons) ==
    IF callback \in pending THEN {NO_TRIGGER}
    ELSE IF pending = {} THEN buttons
    ELSE {}

\* update_button_states with the classes of lines 419-420 taken from the
\* buttons as they are instead of the default class
update_button_states_additive ==
    /\ pc = "serving"
    /\ \E triggered_id \in Triggers("update_button_states", {BUTTON_RATE, BUTTON_TOTAL}) :
          /\ rate_class' = IF triggered_id \in {NO_TRIGGER, BUTTON_RATE}
                           THEN METRIC_BUTTON_ACTIVE ELSE rate_class
          /\ total_class' = IF triggered_id = BUTTON_TOTAL
                            THEN METRIC_BUTTON_ACTIVE ELSE total_class
          /\ selected_metric' = IF triggered_id = BUTTON_TOTAL THEN TOTAL ELSE RATE
          /\ last_metric_click' = IF triggered_id = NO_TRIGGER THEN last_metric_click
                                  ELSE triggered_id
    /\ pending' = (pending \ {"update_button_states"}) \cup {"update_dashboard"}
    /\ UNCHANGED <<pc, csv_data, population_data, merged_data,
                   total_burglaries_all_years, districts_sorted, year_slider,
                   selected_districts, district_classes, dashboard,
                   last_district_click, odd_clicks>>

\* Lines 408-441
update_button_states ==
    /\ pc = "serving"
    /\ \E triggered_id \in Triggers("update_button_states", {BUTTON_RATE, BUTTON_TOTAL}) :
          /\ rate_class' = IF triggered_id \in {NO_TRIGGER, BUTTON_RATE}
                           THEN METRIC_BUTTON_ACTIVE ELSE METRIC_BUTTON
          /\ total_class' = IF triggered_id = BUTTON_TOTAL
                            THEN METRIC_BUTTON_ACTIVE ELSE METRIC_BUTTON
          /\ selected_metric' = IF triggered_id = BUTTON_TOTAL THEN TOTAL ELSE RATE
          /\ last_metric_click' = IF triggered_id = NO_TRIGGER THEN last_metric_click
                                  ELSE triggered_id
    /\ pending' = (pending \ {"update_button_states"}) \cup {"update_dashboard"}
    /\ UNCHANGED <<pc, csv_data, population_data, merged_data,
                   total_burglaries_all_years, districts_sorted, year_slider,
                   selected_districts, district_classes, dashboard,
                   last_district_click, odd_clicks>>

BUTTON_RESET == <<"button-reset-filters">>

\* The identifier of the button of a district
DistrictButton(d) == <<"district-button", d>>

\* Lines 475-478 without the test of line 475: the district is appended
Toggle_append(districts, district_name) == districts \o <<district_name>>

\* Lines 475-478: the list without the clicked district if it holds it, else
\* with the district appended
Toggle(districts, district_name) ==
    IF district_name \in Range(districts)
    THEN SelectSeq(districts, LAMBDA d : d # district_name)
    ELSE districts \o <<district_name>>

\* Lines 443-480
update_selected_districts ==
    /\ pc = "serving"
    /\ \E triggered_id \in Triggers("update_selected_districts",
                                    {BUTTON_RESET} \cup
                                    {DistrictButton(d) : d \in Range(districts_sorted)}) :
          /\ selected_districts' =
                IF triggered_id = NO_TRIGGER THEN selected_districts
                ELSE IF triggered_id = BUTTON_RESET THEN << >>
                ELSE Toggle(selected_districts, triggered_id[2])
          /\ last_district_click' = IF triggered_id = NO_TRIGGER THEN last_district_click
                                    ELSE triggered_id
          /\ odd_clicks' =
                IF triggered_id = NO_TRIGGER THEN odd_clicks
                ELSE IF triggered_id = BUTTON_RESET THEN {}
                ELSE IF triggered_id[2] \in odd_clicks
                     THEN odd_clicks \ {triggered_id[2]}
                     ELSE odd_clicks \cup {triggered_id[2]}
    /\ pending' = (pending \ {"update_selected_districts"})
                      \cup {"update_district_button_classes", "update_dashboard"}
    /\ UNCHANGED <<pc, csv_data, population_data, merged_data,
                   total_burglaries_all_years, districts_sorted, year_slider,
                   selected_metric, rate_class, total_class, district_classes, dashboard,
                   last_metric_click>>

\* update_district_button_classes with a button keeping the class it has once
\* it is active
update_district_button_classes_sticky ==
    /\ pc = "serving"
    /\ "update_district_button_classes" \in pending
    /\ "update_selected_districts" \notin pending
    /\ district_classes' =
          [d \in Range(districts_sorted) |->
              IF d \in Range(selected_districts) THEN DISTRICT_BUTTON_ACTIVE
              ELSE district_classes[d]]
    /\ pending' = pending \ {"update_district_button_classes"}
    /\ UNCHANGED <<pc, csv_data, population_data, merged_data,
                   total_burglaries_all_years, districts_sorted, year_slider,
                   selected_metric, selected_districts, rate_class, total_class,
                   dashboard, last_metric_click, last_district_click, odd_clicks>>

\* Lines 482-492
update_district_button_classes ==
    /\ pc = "serving"
    /\ "update_district_button_classes" \in pending
    /\ "update_selected_districts" \notin pending
    /\ district_classes' =
          [d \in Range(districts_sorted) |->
              IF d \in Range(selected_districts) THEN DISTRICT_BUTTON_ACTIVE
              ELSE DISTRICT_BUTTON]
    /\ pending' = pending \ {"update_district_button_classes"}
    /\ UNCHANGED <<pc, csv_data, population_data, merged_data,
                   total_burglaries_all_years, districts_sorted, year_slider,
                   selected_metric, selected_districts, rate_class, total_class,
                   dashboard,
                   last_metric_click, last_district_click, odd_clicks>>

\* A drag of the year slider to a range within its min and max (lines 283-292)
MoveYearSlider ==
    /\ pc = "serving"
    /\ pending = {}
    /\ \E a \in ColumnYears(merged_data), b \in ColumnYears(merged_data) :
          /\ a <= b
          /\ year_slider' = <<a, b>>
    /\ pending' = {"update_dashboard"}
    /\ UNCHANGED <<pc, csv_data, population_data, merged_data,
                   total_burglaries_all_years, districts_sorted, selected_metric,
                   selected_districts, rate_class, total_class, district_classes,
                   dashboard,
                   last_metric_click, last_district_click, odd_clicks>>

\* update_dashboard with the filter of lines 526-542 assigned to the dataset itself
update_dashboard_inplace ==
    /\ pc = "serving"
    /\ "update_dashboard" \in pending
    /\ "update_button_states" \notin pending
    /\ "update_selected_districts" \notin pending
    /\ \E ties \in TieOrders :
          dashboard' = Dashboard(year_slider, selected_metric, selected_districts, ties)
    /\ merged_data' = FilteredData(year_slider, selected_districts)
    /\ pending' = pending \ {"update_dashboard"}
    /\ UNCHANGED <<pc, csv_data, population_data,
                   total_burglaries_all_years, districts_sorted, year_slider,
                   selected_metric, selected_districts, rate_class, total_class,
                   district_classes, last_metric_click, last_district_click, odd_clicks>>

\* Lines 504-705, called with the values of its three inputs
update_dashboard ==
    /\ pc = "serving"
    /\ "update_dashboard" \in pending
    /\ "update_button_states" \notin pending
    /\ "update_selected_districts" \notin pending
    /\ \E ties \in TieOrders :
          dashboard' = Dashboard(year_slider, selected_metric, selected_districts, ties)
    /\ pending' = pending \ {"update_dashboard"}
    /\ UNCHANGED <<pc, csv_data, population_data, merged_data,
                   total_burglaries_all_years, districts_sorted, year_slider,
                   selected_metric, selected_districts, rate_class, total_class,
                   district_classes,
                   last_metric_click, last_district_click, odd_clicks>>

----------------------------------------------------------------------------
(* The input files *)

KeyLess(a, b) ==
    \/ extract_number(a[1]) < extract_number(b[1])
    \/ a[1] = b[1] /\ a[2] < b[2]

RECURSIVE SortKeys(_)
SortKeys(K) ==
    IF K = {} THEN << >>
    ELSE LET m == CHOOSE x \in K : \A y \in K \ {x} : KeyLess(x, y)
         IN <<m>> \o SortKeys(K \ {m})

\* An incidents table with one row per key of K, in key order
CsvTable(K, count) ==
    LET ks == SortKeys(K)
    IN [i \in 1..Len(ks) |->
          [Stadtkreis_Name |-> ks[i][1], Year |-> ks[i][2],
           Straftaten_total |-> count[ks[i]]]]

\* A population table with one row per key of K; value[k] = << >> is an empty cell
PopulationTable(K, value) ==
    LET ks == SortKeys(K)
    IN [i \in 1..Len(ks) |->
          [KreisLang |-> ks[i][1], Year |-> ks[i][2], AnzBestWir |-> value[ks[i]]]]

Keys == DistrictNames \X Years
KeySets == {K \in SUBSET Keys : Cardinality(K) <= MaxRows}

InitCommon ==
    /\ pc = "startup"
    /\ merged_data = << >>
    /\ total_burglaries_all_years = 0
    /\ districts_sorted = << >>
    /\ year_slider = << >>
    /\ selected_metric = ""
    /\ selected_districts = << >>
    /\ rate_class = ""
    /\ total_class = ""
    /\ district_classes = << >>
    /\ pending = {}
    /\ dashboard = [rendered |-> FALSE]
    /\ last_metric_click = NO_TRIGGER
    /\ last_district_click = << >>
    /\ odd_clicks = {}

\* An incidents table of one to MaxRows rows, each with a count of 1 or of
\* MaxCount, and a population of 1 for every row
Init ==
    /\ InitCommon
    /\ \E K \in KeySets \ {{}} : \E count \in [K -> {1, MaxCount}] :
          /\ csv_data = CsvTable(K, count)
          /\ population_data = PopulationTable(K, [k \in K |-> <<1>>])

Next ==
    \/ Startup
    \/ update_button_states
    \/ update_selected_districts
    \/ update_district_button_classes
    \/ MoveYearSlider
    \/ update_dashboard

Spec == Init /\ [][Next]_vars

\* Population cells of the tables that the loading is checked on: an empty
\* cell, a zero, or a positive count
LoadCells == {NaN, <<0>>, <<1>>}

\* Any incidents table of at most MaxRows rows with any population table that has
\* rows for some of the keys
InitLoad ==
    /\ InitCommon
    /\ \E K \in KeySets : \E count \in [K -> 0..MaxCount] :
          csv_data = CsvTable(K, count)
    /\ \E P \in SUBSET Keys : \E value \in [P -> LoadCells] :
          population_data = PopulationTable(P, value)

NextLoad == Startup

SpecLoad == InitLoad /\ [][NextLoad]_vars

\* Any incidents table of at most MaxRows rows, with a population table that
\* holds a positive population for every incident row
InitDash ==
    /\ InitCommon
    /\ \E K \in KeySets : \E count \in [K -> 0..MaxCount] : \E population \in [K -> Pops] :
          /\ csv_data = CsvTable(K, count)
          /\ population_data = PopulationTable(K, [k \in K |-> <<population[k]>>])

NextDash == Startup \/ DashCall

SpecDash == InitDash /\ [][NextDash]_vars

\* A wide table: one row of 2009 for each of MaxDistricts districts, each with
\* a population of 1 and a count of 1, but for at most MaxHot districts with
\* a count of 2
InitRank ==
    /\ InitCommon
    /\ \E hot \in SUBSET WideNames :
          /\ Cardinality(hot) <= MaxHot
          /\ csv_data = CsvTable(WideNames \X {2009},
                                 [k \in WideNames \X {2009} |->
                                     IF k[1] \in hot THEN 2 ELSE 1])
          /\ population_data = PopulationTable(WideNames \X {2009},
                                               [k \in WideNames \X {2009} |-> <<1>>])

NextRank == Startup \/ RankCall

SpecRank == InitRank /\ [][NextRank]_vars

----------------------------------------------------------------------------
(* The filter *)

\* The inclusion rule: the year lies in the range, and the list is empty or
\* names the district
Included(r, selected_years, districts) ==
    /\ selected_years[1] <= r.Year
    /\ r.Year <= selected_years[2]
    /\ (districts = << >> \/ \E i \in 1..Len(districts) : districts[i] = r.Stadtkreis_Name)

\* C1: the subset that update_dashboard filters holds a record of the dataset
\* if and only if its year lies in the selected range and the district list
\* is empty or names its district; it holds nothing else and nothing twice.
C1_InclusionRule ==
    dashboard.rendered =>
        LET subset == dashboard.filtered_data
        IN /\ \A i \in 1..Len(merged_data) :
                  (\E j \in 1..Len(subset) : subset[j] = merged_data[i])
                      <=> Included(merged_data[i], dashboard.selected_years,
                                   dashboard.selected_districts)
           /\ \A j \in 1..Len(subset) : \E i \in 1..Len(merged_data) : subset[j] = merged_data[i]
           /\ \A j, k \in 1..Len(subset) : j # k => subset[j].idx # subset[k].idx

\* A call with a district list that keeps a record, leaves one out for its
\* year and leaves one out for its district
C1_Witness ==
    /\ dashboard.rendered
    /\ dashboard.selected_districts # << >>
    /\ dashboard.filtered_data # << >>
    /\ \E i \in 1..Len(merged_data) :
          /\ merged_data[i].Year > dashboard.selected_years[2]
          /\ merged_data[i].Stadtkreis_Name \in Range(dashboard.selected_districts)
    /\ \E i \in 1..Len(merged_data) :
          /\ merged_data[i].Year <= dashboard.selected_years[2]
          /\ merged_data[i].Year >= dashboard.selected_years[1]
          /\ merged_data[i].Stadtkreis_Name \notin Range(dashboard.selected_districts)

\* What a call shows apart from the order of equal bars
Summary(d) ==
    <<d.filtered_data, d.total_burglaries, d.percentage_of_total_burglaries,
      d.safest_stadtkreis, d.dangerous_stadtkreis, d.filtered_data_agg, d.avg_value,
      d.total_burglaries_text, d.percentage_text, d.dynamic_title>>

\* C2: a call with the empty district list yields the same subset, aggregates
\* and summary fields as a call with the list of all districts of the dataset,
\* for the same year range and metric.
C2_EmptyListIsAllDistricts ==
    (dashboard.rendered /\ dashboard.selected_districts = << >>) =>
        Summary(dashboard) = Summary(Dashboard(dashboard.selected_years,
                                               dashboard.selected_metric,
                                               districts_sorted, "kept"))

\* A call with the empty list whose subset holds records of two districts
C2_Witness ==
    /\ dashboard.rendered
    /\ dashboard.selected_districts = << >>
    /\ Len(dashboard.filtered_data_agg) = 2
    /\ Len(districts_sorted) = 2

----------------------------------------------------------------------------
(* The aggregates *)

\* C3: the summed incident counts of the per-district aggregates add up to
\* the total incident count taken over the rows of the subset.
C3_AggregateSumsAddUp ==
    dashboard.rendered =>
        SumSeq([i \in 1..Len(dashboard.filtered_data_agg) |->
                   dashboard.filtered_data_agg[i].Straftaten_total])
            = dashboard.total_burglaries

\* A subset of two districts, one of them with two rows, and incidents in it
C3_Witness ==
    /\ dashboard.rendered
    /\ Len(dashboard.filtered_data_agg) = 2
    /\ Len(dashboard.filtered_data) = 3
    /\ dashboard.total_burglaries > 2
    /\ dashboard.selected_metric = TOTAL

\* C4 as stated: the percentage of all-time incidents lies in [0, 100], and
\* is exactly 100 when the subset is the full dataset.
C4_AsStated ==
    dashboard.rendered =>
        LET p == dashboard.percentage_of_total_burglaries
        IN /\ p.den > 0
           /\ p.num >= 0
           /\ p.num <= 100 * p.den
           /\ dashboard.filtered_data = merged_data => p.num = 100 * p.den

\* C5 as stated: when the dataset-wide total of incidents is zero the
\* percentage is 0 and its text reads "0.00% of total burglaries", not NaN.
C5_AsStated ==
    (dashboard.rendered /\ total_burglaries_all_years = 0) =>
        /\ dashboard.percentage_of_total_burglaries.den > 0
        /\ dashboard.percentage_of_total_burglaries.num = 0
        /\ dashboard.percentage_text = [nan |-> FALSE, hundredths |-> 0]

\* C6 as stated: when the subset is empty both extremes are "N/A", the total
\* is 0 and the percentage is 0.
C6_AsStated ==
    (dashboard.rendered /\ dashboard.filtered_data = << >>) =>
        /\ dashboard.safest_stadtkreis = N_A
        /\ dashboard.dangerous_stadtkreis = N_A
        /\ dashboard.total_burglaries = 0
        /\ dashboard.percentage_of_total_burglaries.den > 0
        /\ dashboard.percentage_of_total_burglaries.num = 0
        /\ dashboard.percentage_text = [nan |-> FALSE, hundredths |-> 0]

\* The mean of the metric column over the subset rows of district d, as
\* numerator and denominator over the common denominator 2 of the populations
SubsetRowsOf(d) ==
    {j \in 1..Len(dashboard.filtered_data) : dashboard.filtered_data[j].Stadtkreis_Name = d}

SubsetDistricts ==
    {dashboard.filtered_data[j].Stadtkreis_Name : j \in 1..Len(dashboard.filtered_data)}

RECURSIVE SumOver(_, _)
SumOver(S, f) ==
    IF S = {} THEN 0
    ELSE LET x == CHOOSE y \in S : TRUE IN f[x] + SumOver(S \ {x}, f)

\* Twice the value of the selected metric in row j of the subset
Twice(j) ==
    LET r == dashboard.filtered_data[j]
    IN IF dashboard.selected_metric = TOTAL THEN 2 * r.Straftaten_total
       ELSE (2 * 1000 * r.Straftaten_total) \div r.AnzBestWir[1]

\* mean(d) < mean(e) and mean(d) = mean(e), cross-multiplied
MeanLess(d, e) ==
    SumOver(SubsetRowsOf(d), [j \in SubsetRowsOf(d) |-> Twice(j)]) * Cardinality(SubsetRowsOf(e))
        < SumOver(SubsetRowsOf(e), [j \in SubsetRowsOf(e) |-> Twice(j)]) * Cardinality(SubsetRowsOf(d))
MeanEq(d, e) == ~MeanLess(d, e) /\ ~MeanLess(e, d)

\* C7: for a non-empty subset the safest district has a minimal per-district
\* mean of the selected metric column and the most vulnerable a maximal one,
\* and either is the first in the string order of the names among the
\* districts that share its mean.
C7_ExtremesOfTheMeans ==
    (dashboard.rendered /\ dashboard.filtered_data # << >>) =>
        LET lo == dashboard.safest_stadtkreis
            hi == dashboard.dangerous_stadtkreis
        IN /\ lo \in SubsetDistricts
           /\ hi \in SubsetDistricts
           /\ \A e \in SubsetDistricts :
                 /\ ~MeanLess(e, lo)
                 /\ ~MeanLess(hi, e)
                 /\ (MeanEq(e, lo) /\ e # lo) => NameLess(lo, e)
                 /\ (MeanEq(e, hi) /\ e # hi) => NameLess(hi, e)

\* Two districts with the same mean rate from different rows: "Kreis 10",
\* first as a string and last as a number, is reported
C7_Witness ==
    /\ dashboard.rendered
    /\ dashboard.selected_metric = RATE
    /\ Len(dashboard.filtered_data) = 3
    /\ SubsetDistricts = {Name(2), Name(10)}
    /\ MeanEq(Name(2), Name(10))
    /\ dashboard.safest_stadtkreis = Name(10)
    /\ dashboard.dangerous_stadtkreis = Name(10)
    /\ dashboard.total_burglaries > 0

----------------------------------------------------------------------------
(* The bar ranking and the average line *)

\* The value of the selected metric in a row of the aggregation
Value(row) ==
    IF dashboard.selected_metric = TOTAL THEN Frac(row.Straftaten_total, 1)
    ELSE row.Burglary_rate_per_1000

AggRowOf(d) ==
    dashboard.filtered_data_agg[CHOOSE i \in 1..Len(dashboard.filtered_data_agg) :
                                    dashboard.filtered_data_agg[i].Stadtkreis_Name = d]

Ranked == {dashboard.top12_data[i].Stadtkreis_Name : i \in 1..Len(dashboard.top12_data)}
Aggregated ==
    {dashboard.filtered_data_agg[i].Stadtkreis_Name : i \in 1..Len(dashboard.filtered_data_agg)}

\* C8: the bar ranking has min(12, number of aggregated districts) entries,
\* each an aggregated district with its values and none twice, in
\* non-increasing order of the selected metric, and no omitted district has a
\* strictly larger value than a ranked one.
C8_Top12 ==
    dashboard.rendered =>
        LET top == dashboard.top12_data
        IN /\ Len(top) = Min(12, Len(dashboard.filtered_data_agg))
           /\ Len(top) <= 12
           /\ Cardinality(Ranked) = Len(top)
           /\ Ranked \subseteq Aggregated
           /\ \A i \in 1..Len(top) :
                 /\ top[i].Straftaten_total = AggRowOf(top[i].Stadtkreis_Name).Straftaten_total
                 /\ top[i].Burglary_rate_per_1000
                        = AggRowOf(top[i].Stadtkreis_Name).Burglary_rate_per_1000
           /\ \A i \in 1..(Len(top) - 1) : ~FracLess(Value(top[i]), Value(top[i + 1]))
           /\ \A o \in Aggregated \ Ranked : \A i \in 1..Len(top) :
                 ~FracLess(Value(top[i]), Value(AggRowOf(o)))

\* More than 12 aggregated districts with different values: 12 bars, and an
\* omitted district with a smaller value than the first bar
C8_Witness ==
    /\ dashboard.rendered
    /\ Len(dashboard.filtered_data_agg) > 12
    /\ Len(dashboard.top12_data) = 12
    /\ \E o \in Aggregated \ Ranked : FracLess(Value(AggRowOf(o)), Value(dashboard.top12_data[1]))
    /\ FracLess(Value(dashboard.top12_data[12]), Value(dashboard.top12_data[1]))

\* C9: there is no average line when the aggregation holds 0 or 1 districts;
\* with 2 or more there is one, at the sum of the selected metric over all
\* aggregated districts divided by their number.
C9_AverageLine ==
    dashboard.rendered =>
        LET agg == dashboard.filtered_data_agg
            n == Len(agg)
        IN /\ n <= 1 => dashboard.avg_value = NaN
           /\ n >= 2 =>
                 /\ dashboard.avg_value # NaN
                 /\ FracEq(Frac(dashboard.avg_value[1].num, dashboard.avg_value[1].den),
                           Frac(FracSum([i \in 1..n |-> Value(agg[i])]).num,
                                FracSum([i \in 1..n |-> Value(agg[i])]).den * n))

\* More than 12 aggregated districts where the omitted ones change the mean:
\* the line is not at the mean of the bars
C9_Witness ==
    /\ dashboard.rendered
    /\ Len(dashboard.filtered_data_agg) > 12
    /\ dashboard.avg_value # NaN
    /\ ~FracEq(dashboard.avg_value[1],
               Mean([i \in 1..Len(dashboard.top12_data) |-> Value(dashboard.top12_data[i])]))

----------------------------------------------------------------------------
(* Merge and normalize *)

HasPopulation(r) ==
    \E i \in 1..Len(population_data) :
        /\ population_data[i].KreisLang = r.Stadtkreis_Name
        /\ population_data[i].Year = r.Year
        /\ population_data[i].AnzBestWir # NaN

PopulationOf(r) ==
    LET i == CHOOSE j \in 1..Len(population_data) :
                 /\ population_data[j].KreisLang = r.Stadtkreis_Name
                 /\ population_data[j].Year = r.Year
    IN population_data[i].AnzBestWir

\* The positions of the incident rows that have a population value
KeptPositions == {i \in 1..Len(csv_data) : HasPopulation(csv_data[i])}

\* merged_data holds exactly the incident rows that have a population value,
\* labelled by their position in the incidents table, each with that value
ExactlyRowsWithPopulation ==
    /\ {merged_data[j].idx + 1 : j \in 1..Len(merged_data)} = KeptPositions
    /\ Len(merged_data) = Cardinality(KeptPositions)
    /\ \A j \in 1..Len(merged_data) :
          LET r == csv_data[merged_data[j].idx + 1]
          IN /\ merged_data[j].Stadtkreis_Name = r.Stadtkreis_Name
             /\ merged_data[j].Year = r.Year
             /\ merged_data[j].Straftaten_total = r.Straftaten_total
             /\ merged_data[j].AnzBestWir = PopulationOf(r)

\* C10 as stated: after merge and normalize every record has a defined and
\* strictly positive population and a finite rate, the incident rows without
\* a population value are dropped and all others are kept.
C10_AsStated ==
    pc = "serving" =>
        /\ ExactlyRowsWithPopulation
        /\ \A j \in 1..Len(merged_data) :
              /\ merged_data[j].AnzBestWir # NaN
              /\ merged_data[j].AnzBestWir[1] > 0
              /\ merged_data[j].Burglary_rate_per_1000.den > 0

\* C10 amended: after merge and normalize every record has a defined
\* population, the incident rows without a population value are dropped and
\* all others are kept; a record's population is whatever the population
\* table holds, and its rate is finite exactly when that value is positive.
C10_DefinedPopulation ==
    pc = "serving" =>
        /\ ExactlyRowsWithPopulation
        /\ \A j \in 1..Len(merged_data) :
              /\ merged_data[j].AnzBestWir # NaN
              /\ merged_data[j].Burglary_rate_per_1000.den > 0
                     <=> merged_data[j].AnzBestWir[1] > 0

\* A table where one incident row is dropped for want of a population value,
\* one is kept with a positive population and one with a population of zero
C10_Witness ==
    /\ pc = "serving"
    /\ Len(merged_data) < Len(csv_data)
    /\ \E j \in 1..Len(merged_data) : merged_data[j].AnzBestWir[1] > 0
    /\ \E j \in 1..Len(merged_data) : merged_data[j].AnzBestWir[1] = 0

----------------------------------------------------------------------------
(* C11: the dataset is read-only after startup.  No step taken while the
   dashboard is serving, whichever callback runs it and whatever it is
   called with, changes the rows of merged_data (ratePer1000 included) or
   total_burglaries_all_years. *)
C11_DatasetReadOnly ==
    [][pc = "serving" =>
          /\ merged_data' = merged_data
          /\ total_burglaries_all_years' = total_burglaries_all_years]_vars

\* Every callback has run, update_dashboard on a proper subset of the dataset
\* after clicks on a district button and on the total button, and the
\* dataset is still the one that startup built
C11_Witness ==
    /\ pc = "serving"
    /\ pending = {}
    /\ dashboard.rendered
    /\ selected_metric = TOTAL
    /\ selected_districts # << >>
    /\ Len(dashboard.filtered_data) < Len(merged_data)
    /\ merged_data = MergedData(csv_data, population_data)
    /\ total_burglaries_all_years = SumTotal(merged_data)

----------------------------------------------------------------------------
(* C12: the metric buttons are a mutually exclusive toggle.  Once
   update_button_states has made its initialization call, and after any
   clicks on the two buttons, exactly one of the buttons has the class with
   "active", the stored metric is the metric of that button, and it is the
   rate if no button was clicked yet and else the metric of the button that
   was clicked last. *)
C12_MutuallyExclusiveToggle ==
    (pc = "serving" /\ "update_button_states" \notin pending) =>
        /\ {rate_class, total_class} = {METRIC_BUTTON_ACTIVE, METRIC_BUTTON}
        /\ selected_metric = (IF total_class = METRIC_BUTTON_ACTIVE THEN TOTAL ELSE RATE)
        /\ selected_metric = (IF last_metric_click = BUTTON_TOTAL THEN TOTAL ELSE RATE)

\* The total button was clicked after a dashboard was drawn for the rate
C12_Witness ==
    /\ pc = "serving"
    /\ "update_button_states" \notin pending
    /\ last_metric_click = BUTTON_TOTAL
    /\ total_class = METRIC_BUTTON_ACTIVE
    /\ rate_class = METRIC_BUTTON
    /\ selected_metric = TOTAL
    /\ dashboard.rendered
    /\ dashboard.selected_metric = RATE

----------------------------------------------------------------------------
(* C13: the stored list of selected districts after any clicks on district
   buttons and on the reset button, starting from the empty list.  It holds
   no district twice; it holds a district exactly when the button of the
   district was clicked an odd number of times since the last reset click,
   or since startup if there was none; and it is empty when the last click
   was a reset click. *)
NoDuplicates(list) ==
    \A i \in 1..Len(list), j \in 1..Len(list) : list[i] = list[j] => i = j

C13_OddNumberOfClicks ==
    pc = "serving" =>
        /\ NoDuplicates(selected_districts)
        /\ Range(selected_districts) = odd_clicks
        /\ (last_district_click = BUTTON_RESET => selected_districts = << >>)

\* One district was clicked once and then another one twice
C13_Witness ==
    /\ pc = "serving"
    /\ Len(selected_districts) = 1
    /\ last_district_click \in {DistrictButton(d) : d \in Range(districts_sorted)}
    /\ last_district_click[2] \notin Range(selected_districts)
    /\ dashboard.rendered
    /\ Len(dashboard.selected_districts) = 2

----------------------------------------------------------------------------
(* C14: the classes of the district buttons follow the stored selection.
   Whenever update_district_button_classes has run for the current value of
   selected-districts, that is whenever it is not pending, the button of a
   district has the class with "active" if and only if the district is in
   the list; and no button has it when the last click was a reset click. *)
C14_ClassesFollowSelection ==
    (pc = "serving" /\ "update_district_button_classes" \notin pending) =>
        /\ \A d \in Range(districts_sorted) :
              district_classes[d] = DISTRICT_BUTTON_ACTIVE <=> d \in Range(selected_districts)
        /\ \A d \in Range(districts_sorted) :
              district_classes[d] \in {DISTRICT_BUTTON_ACTIVE, DISTRICT_BUTTON}
        /\ (last_district_click = BUTTON_RESET =>
              \A d \in Range(districts_sorted) : district_classes[d] = DISTRICT_BUTTON)

\* Two districts were selected and one of them was clicked again: its button
\* is no longer active, the button of the other one still is
C14_Witness ==
    /\ pc = "serving"
    /\ "update_district_button_classes" \notin pending
    /\ Len(selected_districts) = 1
    /\ district_classes[selected_districts[1]] = DISTRICT_BUTTON_ACTIVE
    /\ last_district_click \in {DistrictButton(d) : d \in Range(districts_sorted)}
    /\ last_district_click[2] \notin Range(selected_districts)
    /\ district_classes[last_district_click[2]] = DISTRICT_BUTTON

----------------------------------------------------------------------------
(* C15: the summary cards agree with the bar ranking.  For every non-empty
   filtered subset and either metric, the most vulnerable district of the
   card has the largest value of the selected metric in the per-district
   aggregation, the value of the first bar of the ranking, and the safest
   district has the smallest value; districts may contribute different
   numbers of year rows to the subset. *)
C15_AsStated ==
    (dashboard.rendered /\ dashboard.filtered_data # << >>) =>
        LET agg == dashboard.filtered_data_agg
            hi == Value(AggRowOf(dashboard.dangerous_stadtkreis))
            lo == Value(AggRowOf(dashboard.safest_stadtkreis))
        IN /\ \A i \in 1..Len(agg) : ~FracLess(hi, Value(agg[i]))
           /\ FracEq(hi, Value(dashboard.top12_data[1]))
           /\ \A i \in 1..Len(agg) : ~FracLess(Value(agg[i]), lo)

====
